---- MODULE Spec2Model ----
(***************************************************************************)
(* NEATc: the population-level evolutionary loop (src/neat/population.c)   *)
(* and the fixed-topology feed-forward evaluator (src/nn/nn.c).            *)
(*                                                                         *)
(* Genomes live in a heap indexed by allocation number (a pointer); the    *)
(* population's slots and the species hold such pointers.  The species and *)
(* genome collaborators (species.c, genome.c) are not part of the sources  *)
(* at hand and are modelled from their contract in spec.md sections 4.2    *)
(* and 4.3.  C floats are IEEE 754 binary32 values, computed bit for bit;   *)
(* what exp() yields is kept as a term.                                    *)
(***************************************************************************)
EXTENDS Integers, Sequences, FiniteSets, TLC

\* ------------------------------------------------------------------------
\* Bounds of the model
\* ------------------------------------------------------------------------
MaxPop == 3
MaxFitness == 1
MaxMinTicks == 1
MaxGenomes == 4
MaxSpecies == 2
RandDen == 2
MaxAge == 1
MaxInputs == 2
MaxHiddens == 2
MaxOutputs == 2
MaxHiddenLayers == 2
MaxRun == 1
MaxCalls == 2

\* ------------------------------------------------------------------------
\* Program constants
\* ------------------------------------------------------------------------
NULL == 0
RAND_MAX == 2147483647

\* ------------------------------------------------------------------------
\* float arithmetic: IEEE 754 binary32, round to nearest, ties to even.
\* A finite float is [c |-> "fin", neg, m, e]: the value (-1)^neg * m * 2^e
\* with m < 2^24, m odd or m = 0 and e = 0 (so +0 and -0 are told apart);
\* c is "inf" for the infinities and "nan" for NaN
\* ------------------------------------------------------------------------
\* the value of a singleton set: binds a value once it is computed
The(S) == CHOOSE x \in S : TRUE

Sign(x) == IF x > 0 THEN 1 ELSE IF x < 0 THEN -1 ELSE 0

Abs(x) == IF x < 0 THEN -x ELSE x

Max(a, b) == IF a > b THEN a ELSE b

\* the number of bits of a natural number
RECURSIVE BitLen(_)
BitLen(x) ==
    IF x < 2 THEN x
    ELSE IF x >= 65536 THEN 16 + BitLen(x \div 65536)
    ELSE IF x >= 256 THEN 8 + BitLen(x \div 256)
    ELSE IF x >= 16 THEN 4 + BitLen(x \div 16)
    ELSE 1 + BitLen(x \div 2)

FZero(neg) == [c |-> "fin", neg |-> neg, m |-> 0, e |-> 0]

FInfinity(neg) == [c |-> "inf", neg |-> neg, m |-> 0, e |-> 0]

FNaN == [c |-> "nan", neg |-> FALSE, m |-> 0, e |-> 0]

IsNaN(a) == a.c = "nan"

IsInf(a) == a.c = "inf"

IsFinite(a) == a.c = "fin"

IsFZero(a) == a.c = "fin" /\ a.m = 0

\* m * 2^e with the trailing zero bits of m moved into the exponent
RECURSIVE Strip(_, _)
Strip(m, e) ==
    IF m % 2 = 1 THEN [m |-> m, e |-> e]
    ELSE IF m % 256 = 0 THEN Strip(m \div 256, e + 8)
    ELSE Strip(m \div 2, e + 1)

\* the float of m * 2^e for m < 2^24 that needs no rounding; at 2^128 the
\* finite floats end
Canon(neg, m, e) ==
    IF m = 0 THEN FZero(neg)
    ELSE The({IF s.e > 100 /\ BitLen(s.m) + s.e > 128 THEN FInfinity(neg)
              ELSE [c |-> "fin", neg |-> neg, m |-> s.m, e |-> s.e] :
                 s \in {Strip(m, e)}})

\* q and r are the quotient and the remainder of the division by 2 * half:
\* the nearest multiple, the even one of two that are as near
RoundCut(neg, q, r, half, e) ==
    Canon(neg, IF r > half \/ (r = half /\ q % 2 = 1) THEN q + 1 ELSE q, e)

\* m * 2^e with the lowest `shift` bits of m rounded away
RoundShift(neg, m, e, shift) ==
    The({IF sh = 0 THEN Canon(neg, m, e)
         ELSE IF sh > 31 THEN FZero(neg)
         ELSE IF sh = 31
              THEN (IF m > 1073741824 THEN Canon(neg, 1, e + sh) ELSE FZero(neg))
         ELSE RoundCut(neg, m \div (2 ^ sh), m % (2 ^ sh), 2 ^ (sh - 1), e + sh) :
            sh \in {shift}})

\* the float nearest to M * 2^E, for 0 <= M < 2^31: 24 bits are kept, fewer
\* below 2^-126 where the floats are multiples of 2^-149
FRound(neg, M, E) ==
    The({IF m = 0 THEN FZero(neg)
         ELSE RoundShift(neg, m, e, Max(Max(BitLen(m) - 24, (-149) - e), 0)) :
            m \in {M}, e \in {E}})

\* (float)i of an int
FInt(i) == FRound(i < 0, Abs(i), 0)

FNeg(a) == The({IF IsNaN(x) THEN x ELSE [x EXCEPT !.neg = ~x.neg] : x \in {a}})

FAbs(a) == The({IF IsNaN(x) THEN x ELSE [x EXCEPT !.neg = FALSE] : x \in {a}})

\* the position above the leading bit of a finite non-zero float
Top(a) == BitLen(a.m) + a.e

\* |a| in units of 2^E, cut off below the unit, twice, plus one when bits were
\* cut off: the odd number stands for a value strictly between its neighbours
Scaled(a, E) ==
    IF a.e >= E THEN 2 * a.m * (2 ^ (a.e - E))
    ELSE IF E - a.e > 30 THEN 1
    ELSE 2 * (a.m \div (2 ^ (E - a.e))) + 1

\* a + b in half units of 2^E, for E 28 bits below the higher leading bit
AddSum(a, b, E) ==
    (IF a.neg THEN -Scaled(a, E) ELSE Scaled(a, E)) + (IF b.neg THEN -Scaled(b, E) ELSE Scaled(b, E))

AddFinite(a, b) ==
    The({The({FRound(S < 0, Abs(S), E - 1) : S \in {AddSum(a, b, E)}}) :
            E \in {Max(Top(a), Top(b)) - 28}})

AddValues(a, b) ==
    IF IsNaN(a) \/ IsNaN(b) THEN FNaN
    ELSE IF IsInf(a) /\ IsInf(b) THEN (IF a.neg = b.neg THEN a ELSE FNaN)
    ELSE IF IsInf(a) THEN a
    ELSE IF IsInf(b) THEN b
    ELSE IF IsFZero(a) /\ IsFZero(b) THEN FZero(a.neg /\ b.neg)
    ELSE IF IsFZero(a) THEN b
    ELSE IF IsFZero(b) THEN a
    ELSE AddFinite(a, b)

FAdd(a, b) == The({AddValues(x, y) : x \in {a}, y \in {b}})

FSub(a, b) == FAdd(a, FNeg(b))

\* whether the sum of two finite non-zero floats is a float: no bit is cut
\* off and the sum has at most 24 bits
AddIsExact(a, b) ==
    The({The({S % 2 = 0 /\ (S = 0 \/ Strip(Abs(S), 0).m < 16777216) :
                 S \in {AddSum(a, b, E)}}) :
            E \in {Max(Top(a), Top(b)) - 28}})

\* the product of two 24-bit numbers as hi * 2^24 + lo
Wide(x, y) ==
    LET xh == x \div 4096
        xl == x % 4096
        yh == y \div 4096
        yl == y % 4096
        mid == xh * yl + xl * yh
        low == xl * yl + (mid % 4096) * 4096
    IN  [hi |-> xh * yh + (mid \div 4096) + (low \div 16777216),
         lo |-> low % 16777216]

\* the product of two mantissas that has more than 30 bits
MulWide(neg, w, e) ==
    The({FRound(neg,
                2 * (w.hi * (2 ^ (24 - sh)) + (w.lo \div (2 ^ sh)))
                    + (IF w.lo % (2 ^ sh) = 0 THEN 0 ELSE 1),
                e + sh - 1) :
            sh \in {BitLen(w.hi) - 4}})

MulValues(a, b) ==
    IF IsNaN(a) \/ IsNaN(b) THEN FNaN
    ELSE IF IsInf(a) \/ IsInf(b)
         THEN (IF IsFZero(a) \/ IsFZero(b) THEN FNaN ELSE FInfinity(a.neg # b.neg))
    ELSE IF IsFZero(a) \/ IsFZero(b) THEN FZero(a.neg # b.neg)
    ELSE IF BitLen(a.m) + BitLen(b.m) <= 30
         THEN FRound(a.neg # b.neg, a.m * b.m, a.e + b.e)
    ELSE The({MulWide(a.neg # b.neg, w, a.e + b.e) : w \in {Wide(a.m, b.m)}})

FMul(a, b) == The({MulValues(x, y) : x \in {a}, y \in {b}})

\* long division: the quotient q * 2^-k of the remainder's expansion, until
\* it is exact or has 27 bits
RECURSIVE DivBits(_, _, _, _)
DivBits(q, rem, d, k) ==
    IF rem = 0 \/ q >= 67108864 THEN [q |-> q, rem |-> rem, k |-> k]
    ELSE The({DivBits(q2, rem2, d2, k2) :
                 q2 \in {IF 2 * rem >= d THEN 2 * q + 1 ELSE 2 * q},
                 rem2 \in {IF 2 * rem >= d THEN 2 * rem - d ELSE 2 * rem},
                 d2 \in {d}, k2 \in {k + 1}})

DivValues(a, b) ==
    IF IsNaN(a) \/ IsNaN(b) THEN FNaN
    ELSE IF IsInf(a) THEN (IF IsInf(b) THEN FNaN ELSE FInfinity(a.neg # b.neg))
    ELSE IF IsInf(b) THEN FZero(a.neg # b.neg)
    ELSE IF IsFZero(b) THEN (IF IsFZero(a) THEN FNaN ELSE FInfinity(a.neg # b.neg))
    ELSE IF IsFZero(a) THEN FZero(a.neg # b.neg)
    ELSE The({FRound(a.neg # b.neg, 2 * r.q + (IF r.rem = 0 THEN 0 ELSE 1),
                     a.e - b.e - r.k - 1) :
                 r \in {DivBits(q, rem, b.m, 0) :
                          q \in {a.m \div b.m}, rem \in {a.m % b.m}}})

FDiv(a, b) == The({DivValues(x, y) : x \in {a}, y \in {b}})

\* the float of the fraction n/d of two ints
Flt(n, d) == FDiv(FInt(n), FInt(d))

\* |a| > |b| for finite non-zero floats
MagGt(a, b) ==
    The({IF ta # tb THEN ta > tb
         ELSE a.m * (2 ^ (24 - BitLen(a.m))) > b.m * (2 ^ (24 - BitLen(b.m))) :
            ta \in {Top(a)}, tb \in {Top(b)}})

GtValues(a, b) ==
    IF IsNaN(a) \/ IsNaN(b) THEN FALSE
    ELSE IF IsFZero(a) /\ IsFZero(b) THEN FALSE
    ELSE IF IsFZero(a) THEN b.neg
    ELSE IF IsFZero(b) THEN ~a.neg
    ELSE IF a.neg # b.neg THEN b.neg
    ELSE IF IsInf(a) /\ IsInf(b) THEN FALSE
    ELSE IF IsInf(a) THEN ~a.neg
    ELSE IF IsInf(b) THEN b.neg
    ELSE IF a.neg THEN MagGt(b, a) ELSE MagGt(a, b)

\* a > b; every comparison with NaN is false, and -0 equals +0
FGt(a, b) == The({GtValues(x, y) : x \in {a}, y \in {b}})

\* ------------------------------------------------------------------------
\* State
\* ------------------------------------------------------------------------
VARIABLES
    p,           \* "null" before neat_create, "live" after
    conf,        \* struct neat_config of the population
    genomes,     \* p->genomes: the slots, a sequence of genome pointers
    heap,        \* every genome ever allocated, by pointer
    species,     \* p->species: sequence of [genomes, representant]
    innovation,  \* p->innovation
    op,          \* the last call on the population and what it did
    aged,        \* history: the slots whose genome ever was older than the minimum
    net,         \* a struct nn_ffnet with its weights and scratch block
    nnop,        \* the last call on the network and what it did
    copy,        \* a second struct nn_ffnet: the one nn_ffnet_copy returns
    ptr,         \* for each struct, the struct whose block its weight and
                 \* output pointers point into
    ncalls       \* history: the calls made on the two networks

popvars == <<p, conf, genomes, heap, species, innovation, op, aged>>

nnvars == <<net, nnop, copy, ptr, ncalls>>

vars == <<popvars, nnvars>>

NoConf == [population_size |-> 0, genome_minimum_ticks_alive |-> 0,
           genome_compatibility_treshold |-> 0,
           species_crossover_probability |-> FInt(0)]

\* the configurations a population is created with; with a crossover
\* probability of 1/2 the draws of RandVals take both branches of the test at
\* population.c:133, the draw equal to the probability included
Configs == [population_size : 1..MaxPop,
            genome_minimum_ticks_alive : 0..MaxMinTicks,
            genome_compatibility_treshold : {-1, 0},
            species_crossover_probability : {Flt(1, 2)}]

\* the largest finite float, (2^24 - 1) * 2^104
FLT_MAX == [c |-> "fin", neg |-> FALSE, m |-> 16777215, e |-> 104]

\* the fitness a caller may report: small whole values, the largest finite
\* float, and a value that is not a number
FitnessVals == {FInt(f) : f \in 0..MaxFitness} \cup {FLT_MAX, FNaN}

\* what rand() returns: 0, RAND_MAX and values spread between them
RandOutputs == {(RAND_MAX \div RandDen) * k : k \in 0..RandDen} \cup {RAND_MAX}

\* (float)rand() / (float)RAND_MAX: 0 and 1 are both possible
RandVals == {FDiv(FInt(r), FInt(RAND_MAX)) : r \in RandOutputs}

NoOp == [name |-> "none", found |-> FALSE, worst |-> 0, kind |-> "none",
         sel |-> 0, genitor |-> NULL, selection_random |-> FInt(0)]

OpOf(name) == [NoOp EXCEPT !.name = name]

\* ------------------------------------------------------------------------
\* Genome collaborator (contract of spec.md 4.3)
\* ------------------------------------------------------------------------
NeatGenomeCreate(h, innov) ==
    Append(h, [alive |-> TRUE, fitness |-> FInt(0), time_alive |-> 0, innovation |-> innov,
               destroyed |-> 0])

\* deep clone into a fresh allocation
NeatGenomeCopy(h, src) == Append(h, [h[src] EXCEPT !.destroyed = 0])

\* the freed block is no longer a genome; what identity it held is kept so
\* that a stale pointer to it can still be told apart; destroyed counts the
\* times the genome was destroyed
NeatGenomeDestroy(h, g) ==
    [h EXCEPT ![g] = [alive |-> FALSE, fitness |-> FInt(0), time_alive |-> 0,
                      innovation |-> @.innovation, destroyed |-> @.destroyed + 1]]

NeatGenomeDistance(a, b) == Abs(a.innovation - b.innovation)

NeatGenomeIsCompatible(a, b, treshold) == NeatGenomeDistance(a, b) <= treshold

\* ------------------------------------------------------------------------
\* Species collaborator (contract of spec.md 4.2)
\* ------------------------------------------------------------------------
NeatSpeciesCreate(base) ==
    IF base = NULL THEN [genomes |-> <<>>, representant |-> NULL, destroyed |-> 0]
    ELSE [genomes |-> <<base>>, representant |-> base, destroyed |-> 0]

\* the species is released; the genomes it refers to are not its to destroy
NeatSpeciesDestroy(s) == [s EXCEPT !.destroyed = @ + 1]

NeatSpeciesAddGenome(s, g) ==
    [s EXCEPT !.genomes = Append(s.genomes, g),
              !.representant = IF s.representant = NULL THEN g ELSE s.representant]

NeatSpeciesRemoveGenome(s, g) ==
    [s EXCEPT !.genomes = SelectSeq(s.genomes, LAMBDA x : x # g)]

NeatSpeciesGetRepresentant(s) == s.representant

RECURSIVE SumFitness(_, _, _, _)
SumFitness(gs, h, i, acc) ==
    IF i > Len(gs) THEN acc
    ELSE SumFitness(gs, h, i + 1, FAdd(acc, h[gs[i]].fitness))

\* the mean of the members' fitness; 0/0 for a species without members
NeatSpeciesGetAverageFitness(s, h) ==
    FDiv(SumFitness(s.genomes, h, 1, FInt(0)), FInt(Len(s.genomes)))

\* the genomes a species may hand out as genitor
NeatSpeciesSelectGenitor(s) == {s.genomes[i] : i \in DOMAIN s.genomes}

Members(s) == {s.genomes[i] : i \in DOMAIN s.genomes}

\* ------------------------------------------------------------------------
\* population.c: helpers
\* ------------------------------------------------------------------------
\* the heap after neat_reset_genomes: a base genome and its copies
RECURSIVE CopyBase(_, _)
CopyBase(h, n) == IF n = 0 THEN h ELSE CopyBase(NeatGenomeCopy(h, 1), n - 1)

NeatResetGenomes(c, innov) ==
    LET h == CopyBase(NeatGenomeCreate(<<>>, innov), c.population_size - 1)
    IN  [heap |-> h, genomes |-> [i \in 1..c.population_size |-> i]]

\* variant: the copy lands in the slot after dest
NeatReplaceGenome_OtherSlot(gs, h, dest, src) ==
    LET h1 == NeatGenomeDestroy(h, gs[dest])
        h2 == NeatGenomeCopy(h1, src)
    IN  [heap |-> h2, genomes |-> [gs EXCEPT ![(dest % Len(gs)) + 1] = Len(h2)]]

\* variant: the copy is appended to the slots instead of stored in place
NeatReplaceGenome_Append(gs, h, dest, src) ==
    LET h1 == NeatGenomeDestroy(h, gs[dest])
        h2 == NeatGenomeCopy(h1, src)
    IN  [heap |-> h2, genomes |-> Append(gs, Len(h2))]

\* variant: the slot's genome is not destroyed before the copy is stored
NeatReplaceGenome_Leak(gs, h, dest, src) ==
    LET h2 == NeatGenomeCopy(h, src)
    IN  [heap |-> h2, genomes |-> [gs EXCEPT ![dest] = Len(h2)]]

\* destroy the slot's genome and put a copy of src in the slot
NeatReplaceGenome(gs, h, dest, src) ==
    LET h1 == NeatGenomeDestroy(h, gs[dest])
        h2 == NeatGenomeCopy(h1, src)
    IN  [heap |-> h2, genomes |-> [gs EXCEPT ![dest] = Len(h2)]]

NeatCreateNewSpecies(sp, base) == Append(sp, NeatSpeciesCreate(base))

\* variant: a genome as old as the minimum already qualifies
IsWorse_AgeNotStrict(fitness, worst_fitness, time_alive, min_ticks) ==
    FGt(worst_fitness, fitness) /\ time_alive >= min_ticks

\* variant: a later genome of equal fitness displaces the earlier one
IsWorse_FitnessNotStrict(fitness, worst_fitness, time_alive, min_ticks) ==
    /\ ~IsNaN(fitness) /\ ~IsNaN(worst_fitness) /\ ~FGt(fitness, worst_fitness)
    /\ time_alive > min_ticks

\* variant: the age of the genome is not looked at
IsWorse_AgeIgnored(fitness, worst_fitness, time_alive, min_ticks) ==
    FGt(worst_fitness, fitness)

\* the test of the scan at population.c:57
IsWorse(fitness, worst_fitness, time_alive, min_ticks) ==
    FGt(worst_fitness, fitness) /\ time_alive > min_ticks

RECURSIVE FindWorstScan(_, _, _, _, _)
FindWorstScan(gs, h, c, i, acc) ==
    IF i > Len(gs) THEN acc
    ELSE LET g == h[gs[i]]
         IN  IF IsWorse(g.fitness, acc.worst_fitness, g.time_alive,
                        c.genome_minimum_ticks_alive)
             THEN FindWorstScan(gs, h, c, i + 1,
                      [found |-> TRUE, worst |-> i, worst_fitness |-> g.fitness])
             ELSE FindWorstScan(gs, h, c, i + 1, acc)

NeatFindWorstFitness(gs, h, c) ==
    FindWorstScan(gs, h, c, 1,
                  [found |-> FALSE, worst |-> 1, worst_fitness |-> FLT_MAX])

RECURSIVE SumAveragesFrom(_, _, _, _)
SumAveragesFrom(sp, h, i, acc) ==
    IF i > Len(sp) THEN acc
    ELSE SumAveragesFrom(sp, h, i + 1,
                         FAdd(acc, NeatSpeciesGetAverageFitness(sp[i], h)))

NeatGetSpeciesFitnessAverage(sp, h) ==
    FDiv(SumAveragesFrom(sp, h, 1, FInt(0)), FInt(Len(sp)))

\* whether species i's representant matches the genome; reading a destroyed
\* representant is undefined, the outcome is then the one given by ub
RepresentantMatches(sp, h, i, genome, treshold, ub) ==
    LET r == NeatSpeciesGetRepresentant(sp[i])
    IN  IF r = NULL \/ ~h[r].alive THEN i \in ub
        ELSE NeatGenomeIsCompatible(h[genome], h[r], treshold)

RECURSIVE SpeciateScan(_, _, _, _, _, _)
SpeciateScan(sp, h, genome, treshold, ub, i) ==
    IF i > Len(sp)
    THEN LET sp1 == NeatCreateNewSpecies(sp, NULL)
         IN  [sp1 EXCEPT ![Len(sp1)] = NeatSpeciesAddGenome(sp1[Len(sp1)], genome)]
    ELSE IF RepresentantMatches(sp, h, i, genome, treshold, ub)
         THEN [sp EXCEPT ![i] = NeatSpeciesAddGenome(sp[i], genome)]
         ELSE SpeciateScan(sp, h, genome, treshold, ub, i + 1)

NeatSpeciateGenome(sp, gs, h, genome_id, c, ub) ==
    SpeciateScan(sp, h, gs[genome_id], c.genome_compatibility_treshold, ub, 1)

\* the species whose representant is no longer a live genome
DeadRepresentants(sp, h) ==
    {i \in DOMAIN sp : sp[i].representant = NULL \/ ~h[sp[i].representant].alive}

\* the species whose representant is no longer a live genome when an epoch
\* that replaces the worst genome speciates the copy: the replacement has
\* destroyed the worst genome by then
DeadAtSpeciation(sp, gs, h, c) ==
    LET w == NeatFindWorstFitness(gs, h, c)
    IN  IF w.found THEN DeadRepresentants(sp, NeatGenomeDestroy(h, gs[w.worst]))
        ELSE DeadRepresentants(sp, h)

\* variant: the worst genome is only taken out of the first species
Detach_FirstSpeciesOnly(sp, g) ==
    [i \in DOMAIN sp |-> IF i = 1 THEN NeatSpeciesRemoveGenome(sp[i], g) ELSE sp[i]]

\* variant: the worst genome is left in its species
Detach_Skipped(sp, g) == sp

\* the loop of neat_epoch that takes the worst genome out of every species
Detach(sp, g) == [i \in DOMAIN sp |-> NeatSpeciesRemoveGenome(sp[i], g)]

\* the roulette of neat_select_reproduction_species: the index of the
\* species the loop stops at, 0 when it runs off the end
RECURSIVE RouletteScan(_, _, _, _, _)
RouletteScan(sp, h, total_avg, selection_random, i) ==
    IF i > Len(sp) THEN 0
    ELSE IF Len(sp[i].genomes) = 0
         THEN RouletteScan(sp, h, total_avg, selection_random, i + 1)
    ELSE LET avg == NeatSpeciesGetAverageFitness(sp[i], h)
             selection_prob == FDiv(avg, total_avg)
         IN  IF FGt(selection_random, selection_prob)
             THEN RouletteScan(sp, h, total_avg,
                               FSub(selection_random, selection_prob), i + 1)
             ELSE i

SelectSpecies(sp, h, selection_random) ==
    RouletteScan(sp, h, NeatGetSpeciesFitnessAverage(sp, h), selection_random, 1)

\* variant: the genome is speciated after the loop, whether or not a species
\* was selected
NeatReproduceSelected_SpeciateAfterLoop(sp, gs, h, c, worst_genome, sel, random, g, ub) ==
    LET same == [species |-> sp, genomes |-> gs, heap |-> h,
                 kind |-> "fallthrough", sel |-> 0, genitor |-> NULL]
    IN  IF sel = 0
        THEN [same EXCEPT !.species = NeatSpeciateGenome(sp, gs, h, worst_genome, c, ub)]
        ELSE IF FGt(c.species_crossover_probability, random)
        THEN [same EXCEPT !.kind = "crossover", !.sel = sel,
                 !.species = NeatSpeciateGenome(sp, gs, h, worst_genome, c, ub)]
        ELSE IF g = NULL \/ gs[worst_genome] = g
        THEN [same EXCEPT !.kind = "abort", !.sel = sel, !.genitor = g]
        ELSE LET r == The({NeatReplaceGenome(gs, h, worst_genome, g)})
             IN  [species |-> NeatSpeciateGenome(sp, r.genomes, r.heap,
                                                 worst_genome, c, ub),
                  genomes |-> r.genomes, heap |-> r.heap,
                  kind |-> "replace", sel |-> sel, genitor |-> g]

\* what neat_select_reproduction_species does once its loop has stopped at
\* species sel (0: it ran off the end), given the second value of rand(),
\* the genitor the species hands out and the outcome of undefined reads
NeatReproduceSelected(sp, gs, h, c, worst_genome, sel, random, g, ub) ==
    LET same == [species |-> sp, genomes |-> gs, heap |-> h,
                 kind |-> "fallthrough", sel |-> 0, genitor |-> NULL]
    IN  IF sel = 0 THEN same
        ELSE IF FGt(c.species_crossover_probability, random)
        THEN [same EXCEPT !.kind = "crossover", !.sel = sel,
                 !.species = NeatSpeciateGenome(sp, gs, h, worst_genome, c, ub)]
        ELSE IF g = NULL \/ gs[worst_genome] = g
        THEN [same EXCEPT !.kind = "abort", !.sel = sel, !.genitor = g]
        ELSE LET r == The({NeatReplaceGenome(gs, h, worst_genome, g)})
             IN  [species |-> NeatSpeciateGenome(sp, r.genomes, r.heap,
                                                 worst_genome, c, ub),
                  genomes |-> r.genomes, heap |-> r.heap,
                  kind |-> "replace", sel |-> sel, genitor |-> g]

\* neat_select_reproduction_species, given what rand() returns twice, the
\* genitor the species hands out and the outcome of undefined reads
NeatSelectReproductionSpecies(sp, gs, h, c, worst_genome, selection_random, random, g, ub) ==
    NeatReproduceSelected(sp, gs, h, c, worst_genome,
                          The({SelectSpecies(sp, h, selection_random)}), random, g, ub)

\* neat_epoch up to the end of the roulette: the worst genome, the species
\* after the detach and the species the roulette stops at
NeatEpochSelection(sp, gs, h, c, selection_random) ==
    LET w == The({NeatFindWorstFitness(gs, h, c)})
    IN  IF ~w.found
        THEN [found |-> FALSE, worst |-> w.worst, species |-> sp, sel |-> 0]
        ELSE The({[found |-> TRUE, worst |-> w.worst, species |-> d,
                   sel |-> SelectSpecies(d, h, selection_random)] :
                      d \in {Detach(sp, gs[w.worst])}})

\* neat_epoch from the selection s on
NeatEpochFrom(s, gs, h, c, selection_random, random, g, ub) ==
    IF ~s.found
    THEN [species |-> s.species, genomes |-> gs, heap |-> h, kind |-> "noop",
          sel |-> 0, genitor |-> NULL, found |-> FALSE, worst |-> s.worst,
          selection_random |-> FInt(0)]
    ELSE LET r == The({NeatReproduceSelected(s.species, gs, h, c, s.worst,
                                             s.sel, random, g, ub)})
         IN  [species |-> r.species, genomes |-> r.genomes, heap |-> r.heap,
              kind |-> r.kind, sel |-> r.sel, genitor |-> r.genitor,
              found |-> TRUE, worst |-> s.worst,
              selection_random |-> selection_random]

\* neat_epoch as a function of the state and of the run's random inputs
NeatEpoch(sp, gs, h, c, selection_random, random, g, ub) ==
    NeatEpochFrom(The({NeatEpochSelection(sp, gs, h, c, selection_random)}),
                  gs, h, c, selection_random, random, g, ub)

\* the first loop of neat_destroy: the genome of every slot from i on
RECURSIVE DestroyGenomes(_, _, _)
DestroyGenomes(gs, h, i) ==
    IF i > Len(gs) THEN h
    ELSE DestroyGenomes(gs, NeatGenomeDestroy(h, gs[i]), i + 1)

\* neat_destroy: every slot's genome, then every species
neat_destroy(sp, gs, h) ==
    [heap |-> DestroyGenomes(gs, h, 1),
     species |-> [i \in DOMAIN sp |-> NeatSpeciesDestroy(sp[i])]]

\* the slots whose genome is older than the configured minimum
Old(gs, h, c) ==
    {i \in DOMAIN gs : h[gs[i]].time_alive > c.genome_minimum_ticks_alive}

\* ------------------------------------------------------------------------
\* nn.c: values.  A value is a float where the model computes it; what exp()
\* and double arithmetic yield is kept as the term that was computed: [f, a]
\* or [f, a, b]
\* ------------------------------------------------------------------------
IsQ(v) == "c" \in DOMAIN v

\* a term known to be a finite non-zero number: a sigmoid or fast sigmoid of
\* a float (of a finite non-zero one, or else it would be a float itself)
Definite(v) == ~IsQ(v) /\ v.f \in {"sigmoid", "fast_sigmoid"} /\ IsQ(v.a)

\* the sign of such a term: the sigmoid is positive, the fast sigmoid has
\* the sign of its argument
TermNeg(v) == v.f = "fast_sigmoid" /\ v.a.neg

\* a float times a term
MulTerm(q, t) ==
    IF IsNaN(q) THEN FNaN
    ELSE IF Definite(t) /\ IsInf(q) THEN FInfinity(q.neg # TermNeg(t))
    ELSE IF Definite(t) /\ IsFZero(q) THEN FZero(q.neg # TermNeg(t))
    ELSE [f |-> "mul", a |-> q, b |-> t]

NNMul(a, b) ==
    IF IsQ(a) /\ IsQ(b) THEN FMul(a, b)
    ELSE IF IsQ(a) THEN MulTerm(a, b)
    ELSE IF IsQ(b) THEN (IF IsNaN(b) THEN FNaN ELSE [f |-> "mul", a |-> a, b |-> b])
    ELSE [f |-> "mul", a |-> a, b |-> b]

\* a float plus a term
AddTerm(q, t) ==
    IF IsNaN(q) THEN FNaN
    ELSE IF Definite(t) /\ IsInf(q) THEN q
    ELSE IF Definite(t) /\ IsFZero(q) THEN t
    ELSE [f |-> "add", a |-> q, b |-> t]

NNAdd(a, b) ==
    IF IsQ(a) /\ IsQ(b) THEN FAdd(a, b)
    ELSE IF IsQ(a) THEN AddTerm(a, b)
    ELSE IF IsQ(b) THEN (IF IsNaN(b) THEN FNaN ELSE [f |-> "add", a |-> a, b |-> b])
    ELSE [f |-> "add", a |-> a, b |-> b]

\* variant: the lower cut-off has lost its sign
nn_sigmoid_CutoffSign(input) ==
    IF ~IsQ(input) THEN [f |-> "sigmoid", a |-> input]
    ELSE IF FGt(FInt(45), input) THEN FInt(0)
    ELSE IF FGt(input, FInt(45)) THEN FInt(1)
    ELSE IF IsNaN(input) THEN FNaN
    ELSE IF IsFZero(input) THEN Flt(1, 2)
    ELSE [f |-> "sigmoid", a |-> input]

\* 1.0 / (1 + exp(-input)) is 1/2 at zero and a term elsewhere
nn_sigmoid(input) ==
    IF ~IsQ(input) THEN [f |-> "sigmoid", a |-> input]
    ELSE IF FGt(FInt(-45), input) THEN FInt(0)
    ELSE IF FGt(input, FInt(45)) THEN FInt(1)
    ELSE IF IsNaN(input) THEN FNaN
    ELSE IF IsFZero(input) THEN Flt(1, 2)
    ELSE [f |-> "sigmoid", a |-> input]

\* input / (1 + fabs(input)) is computed in double and then made a float:
\* when 1 + |input| is a float, that is the float quotient; else a term
nn_fast_sigmoid(input) ==
    IF ~IsQ(input) THEN [f |-> "fast_sigmoid", a |-> input]
    ELSE IF ~IsFinite(input) \/ IsFZero(input)
         THEN FDiv(input, FAdd(FInt(1), FAbs(input)))
    ELSE IF AddIsExact(FInt(1), FAbs(input))
         THEN FDiv(input, FAdd(FInt(1), FAbs(input)))
    ELSE [f |-> "fast_sigmoid", a |-> input]

nn_relu(input) ==
    IF ~IsQ(input) THEN [f |-> "relu", a |-> input]
    ELSE IF FGt(FInt(0), input) THEN FInt(0)
    ELSE input

\* the selectors of enum nn_activation and one value that is none of them
Activations == {"NN_ACTIVATION_SIGMOID", "NN_ACTIVATION_FAST_SIGMOID",
                "NN_ACTIVATION_RELU", "unknown"}

\* variant: the default branch hands the input back instead of exiting
nn_activate_DefaultReturns(activation, input) ==
    CASE activation = "NN_ACTIVATION_SIGMOID" ->
             [exit |-> FALSE, value |-> nn_sigmoid(input)]
      [] activation = "NN_ACTIVATION_FAST_SIGMOID" ->
             [exit |-> FALSE, value |-> nn_fast_sigmoid(input)]
      [] activation = "NN_ACTIVATION_RELU" ->
             [exit |-> FALSE, value |-> nn_relu(input)]
      [] OTHER -> [exit |-> FALSE, value |-> input]

\* nn_activate: [exit |-> TRUE] is the default branch, exit(-1)
nn_activate(activation, input) ==
    CASE activation = "NN_ACTIVATION_SIGMOID" ->
             [exit |-> FALSE, value |-> nn_sigmoid(input)]
      [] activation = "NN_ACTIVATION_FAST_SIGMOID" ->
             [exit |-> FALSE, value |-> nn_fast_sigmoid(input)]
      [] activation = "NN_ACTIVATION_RELU" ->
             [exit |-> FALSE, value |-> nn_relu(input)]
      [] OTHER -> [exit |-> TRUE, value |-> FNaN]

\* nn_rand, given what rand() returns; abort is the failed assertion
nn_rand(start, end, r) ==
    IF ~FGt(end, start) THEN [abort |-> TRUE, value |-> FNaN]
    ELSE LET range == FSub(end, start)
         IN  [abort |-> FALSE,
              value |-> FAdd(FDiv(FInt(r), FDiv(FInt(RAND_MAX), range)), start)]

\* ------------------------------------------------------------------------
\* nn.c: the network.  items is the block behind the struct: nweights
\* weights, then nneurons scratch slots; net->weight is offset 0 of it and
\* net->output is offset nweights
\* ------------------------------------------------------------------------
NoNet == [ninputs |-> 0, nhiddens |-> 0, noutputs |-> 0, nhidden_layers |-> 0,
          nweights |-> 0, nneurons |-> 0,
          hidden_activation |-> "unknown", output_activation |-> "unknown",
          bias |-> FInt(0), items |-> <<>>, state |-> "null"]

NoNNOp == [name |-> "none", on |-> "net", status |-> "none", weight |-> 0,
           output |-> 0, ret |-> 0, outputs |-> <<>>, reads |-> <<>>]

\* no struct has its pointers set
NoPtr == [net |-> "none", copy |-> "none"]

\* nn_ffnet_set_pointers: the struct's weight and output pointers are made to
\* point into the block behind the struct itself
nn_ffnet_set_pointers(pt, self) == [pt EXCEPT ![self] = self]

\* variant: the copy keeps the pointers memcpy gave it
nn_ffnet_copy_PointersKept(n, pt) ==
    [copy |-> n, ptr |-> [pt EXCEPT !.copy = pt.net]]

\* nn_ffnet_copy: memcpy of the struct and of the block behind it (the
\* pointers of the source included), then the pointers are set anew
nn_ffnet_copy(n, pt) ==
    [copy |-> n, ptr |-> nn_ffnet_set_pointers([pt EXCEPT !.copy = pt.net], "copy")]

\* variant: the weights between hidden layers are counted once per layer
NNTotalWeights_PerLayer(input_count, hidden_count, output_count, hidden_layer_count) ==
    (IF hidden_layer_count > 0
     THEN (input_count + 1) * hidden_count
              + hidden_layer_count * (hidden_count + 1) * hidden_count
     ELSE 0)
    + (IF hidden_layer_count > 0 THEN hidden_count + 1 ELSE input_count + 1)
          * output_count

\* total_weights of nn_ffnet_create
NNTotalWeights(input_count, hidden_count, output_count, hidden_layer_count) ==
    LET hidden_weights ==
            IF hidden_layer_count > 0
            THEN LET input_weights == (input_count + 1) * hidden_count
                     hidden_internal_weights ==
                         (hidden_layer_count - 1) * (hidden_count + 1) * hidden_count
                 IN  input_weights + hidden_internal_weights
            ELSE 0
        output_weights ==
            (IF hidden_layer_count > 0 THEN hidden_count + 1 ELSE input_count + 1)
                * output_count
    IN  hidden_weights + output_weights

\* total_neurons of nn_ffnet_create
NNTotalNeurons(input_count, hidden_count, output_count, hidden_layer_count) ==
    input_count + hidden_count * hidden_layer_count + output_count

nn_ffnet_create(input_count, hidden_count, output_count, hidden_layer_count) ==
    LET total_weights == NNTotalWeights(input_count, hidden_count,
                                        output_count, hidden_layer_count)
        total_neurons == NNTotalNeurons(input_count, hidden_count,
                                        output_count, hidden_layer_count)
    IN  [ninputs |-> input_count, nhiddens |-> hidden_count,
         noutputs |-> output_count, nhidden_layers |-> hidden_layer_count,
         nweights |-> total_weights, nneurons |-> total_neurons,
         hidden_activation |-> "NN_ACTIVATION_SIGMOID",
         output_activation |-> "NN_ACTIVATION_SIGMOID",
         bias |-> FInt(-1),
         items |-> [i \in 1..(total_weights + total_neurons) |-> FInt(0)],
         state |-> "live"]

\* nn_ffnet_randomize, given what rand() returns for each weight in turn
nn_ffnet_randomize(n, draws) ==
    LET w == [i \in 1..n.nweights |-> nn_rand(Flt(-1, 2), Flt(1, 2), draws[i])]
    IN  IF \E i \in 1..n.nweights : w[i].abort THEN [n EXCEPT !.state = "abort"]
        ELSE [n EXCEPT !.items = [i \in DOMAIN n.items |->
                                     IF i <= n.nweights THEN w[i].value
                                     ELSE n.items[i]]]

\* nn_ffnet_destroy: the struct and the block behind it are freed, there is
\* no network any more
nn_ffnet_destroy(n) == [NoNet EXCEPT !.state = "destroyed"]

\* a read at offset i of the block; outside of it the read is out of bounds
ItemAt(items, i) == IF i + 1 \in DOMAIN items THEN items[i + 1] ELSE FNaN

InBlock(items, i) == i + 1 \in DOMAIN items

\* The evaluator's position: weight counts from net->weight, output and input
\* count from net->output
\* sum += *weight++ * input[k] for k = k .. nweights - 1
RECURSIVE NNSumWeights(_, _, _, _, _)
NNSumWeights(n, st, nweights, k, sum) ==
    IF k >= nweights THEN [st |-> st, sum |-> sum]
    ELSE The({NNSumWeights(n, st1, nweights, k + 1, sum1) :
                st1 \in {[st EXCEPT
                            !.weight = @ + 1,
                            !.cur = @ \cup {st.input + k},
                            !.oob = @ \/ ~InBlock(st.items, st.weight)
                                      \/ ~InBlock(st.items, n.nweights + st.input + k)]},
                sum1 \in {NNAdd(sum,
                                NNMul(ItemAt(st.items, st.weight),
                                      ItemAt(st.items, n.nweights + st.input + k)))}})

\* *output++ = nn_activate(activation, sum)
NNStoreActivation(n, st, activation, sum) ==
    The({IF a.exit THEN [st EXCEPT !.status = "exit"]
         ELSE [st EXCEPT !.output = @ + 1,
                         !.reads = Append(@, [slot |-> st.output, from |-> st.cur]),
                         !.oob = @ \/ ~InBlock(st.items, n.nweights + st.output),
                         !.items = IF InBlock(st.items, n.nweights + st.output)
                                   THEN [@ EXCEPT ![n.nweights + st.output + 1] = a.value]
                                   ELSE @] :
            a \in {nn_activate(activation, sum)}})

\* one neuron: bias, weighted inputs, activation
NNNeuron(n, st, nweights, activation) ==
    The({NNStoreActivation(n, r.st, activation, r.sum) :
            r \in {NNSumWeights(n,
                       [st EXCEPT !.weight = @ + 1,
                                  !.cur = {},
                                  !.oob = @ \/ ~InBlock(st.items, st.weight)],
                       nweights, 0,
                       NNMul(ItemAt(st.items, st.weight), n.bias))}})

\* the neurons j .. count - 1 of one layer
RECURSIVE NNLayer(_, _, _, _, _, _)
NNLayer(n, st, nweights, activation, j, count) ==
    IF j >= count \/ st.status # "ok" THEN st
    ELSE The({NNLayer(n, st1, nweights, activation, j + 1, count) :
                st1 \in {NNNeuron(n, st, nweights, activation)}})

\* variant: the input pointer advances by nhiddens after every hidden layer,
\* the first one included
RECURSIVE NNHiddenLayers_AdvanceByHiddens(_, _, _)
NNHiddenLayers_AdvanceByHiddens(n, st, i) ==
    IF i >= n.nhidden_layers \/ st.status # "ok" THEN st
    ELSE The({NNHiddenLayers_AdvanceByHiddens(
                  n, [st1 EXCEPT !.input = @ + n.nhiddens], i + 1) :
                st1 \in {NNLayer(n, st, IF i = 0 THEN n.ninputs ELSE n.nhiddens,
                                 n.hidden_activation, 0, n.nhiddens)}})

\* the hidden layers i .. nhidden_layers - 1
RECURSIVE NNHiddenLayers(_, _, _)
NNHiddenLayers(n, st, i) ==
    IF i >= n.nhidden_layers \/ st.status # "ok" THEN st
    ELSE The({NNHiddenLayers(n, [st1 EXCEPT !.input = @ + nweights], i + 1) :
                nweights \in {IF i = 0 THEN n.ninputs ELSE n.nhiddens},
                st1 \in {NNLayer(n, st, IF i = 0 THEN n.ninputs ELSE n.nhiddens,
                                 n.hidden_activation, 0, n.nhiddens)}})

\* the state of the evaluator before the first layer: the inputs copied to
\* the start of the scratch slots.  reads lists, for every neuron evaluated,
\* the scratch slot it stored to and the scratch slots it read (cur, while
\* the neuron is being summed)
NNStart(n, inputs) ==
    [weight |-> 0, output |-> n.ninputs, input |-> 0,
     items |-> [i \in DOMAIN n.items |->
                   IF i > n.nweights /\ i <= n.nweights + n.ninputs
                   THEN inputs[i - n.nweights] ELSE n.items[i]],
     status |-> "ok", oob |-> FALSE, cur |-> {}, reads |-> <<>>]

\* the two assertions at the end of nn_ffnet_run
NNFinish(n, st, ret) ==
    [weight |-> st.weight, output |-> st.output, input |-> st.input,
     items |-> st.items, oob |-> st.oob, ret |-> ret, reads |-> st.reads,
     status |-> IF st.status # "ok" THEN st.status
                ELSE IF st.weight # n.nweights \/ st.output # n.nneurons
                     THEN "abort" ELSE "ok"]

\* nn_ffnet_run: the evaluator's position when it returns, aborts or exits
nn_ffnet_run(n, inputs) ==
    The({The({NNFinish(n, st2, st1.output) :
                 st2 \in {NNLayer(n, st1,
                                  IF n.nhidden_layers = 0 THEN n.ninputs
                                  ELSE n.nhiddens,
                                  n.output_activation, 0, n.noutputs)}}) :
            st1 \in {NNHiddenLayers(n, NNStart(n, inputs), 0)}})

\* ------------------------------------------------------------------------
\* Initial state and the operations of the population
\* ------------------------------------------------------------------------
Init ==
    /\ p = "null"
    /\ conf = NoConf
    /\ genomes = <<>>
    /\ heap = <<>>
    /\ species = <<>>
    /\ innovation = 0
    /\ op = NoOp
    /\ aged = {}
    /\ net = NoNet
    /\ nnop = NoNNOp
    /\ copy = NoNet
    /\ ptr = NoPtr
    /\ ncalls = 0

NeatCreate(config) ==
    /\ p = "null"
    /\ config.population_size > 0
    /\ LET r == NeatResetGenomes(config, 1)
       IN  /\ heap' = r.heap
           /\ genomes' = r.genomes
           /\ species' = NeatCreateNewSpecies(<<>>, r.genomes[1])
    /\ p' = "live"
    /\ conf' = config
    /\ innovation' = 2
    /\ op' = OpOf("create")
    /\ aged' = {}
    /\ UNCHANGED nnvars

NeatRun(genome_id) ==
    /\ p = "live"
    /\ genome_id \in 1..Len(genomes)
    /\ op' = OpOf("call")
    /\ UNCHANGED <<p, conf, genomes, heap, species, innovation, aged>>
    /\ UNCHANGED nnvars

NeatSetFitness(genome_id, fitness) ==
    /\ p = "live"
    /\ genome_id \in 1..Len(genomes)
    /\ heap' = [heap EXCEPT ![genomes[genome_id]].fitness = fitness]
    /\ op' = OpOf("call")
    /\ UNCHANGED <<p, conf, genomes, species, innovation, aged>>
    /\ UNCHANGED nnvars

NeatIncreaseTimeAlive(genome_id) ==
    /\ p = "live"
    /\ genome_id \in 1..Len(genomes)
    /\ heap[genomes[genome_id]].time_alive < MaxAge
    /\ heap' = [heap EXCEPT ![genomes[genome_id]].time_alive = @ + 1]
    /\ op' = OpOf("call")
    /\ aged' = aged \cup Old(genomes, heap', conf)
    /\ UNCHANGED <<p, conf, genomes, species, innovation>>
    /\ UNCHANGED nnvars

\* the population is destroyed as a unit; nothing can be called on it after
NeatDestroy ==
    /\ p = "live"
    /\ \E r \in {neat_destroy(species, genomes, heap)} :
           /\ heap' = r.heap
           /\ species' = r.species
    /\ p' = "destroyed"
    /\ op' = OpOf("destroy")
    /\ UNCHANGED <<conf, genomes, innovation, aged>>
    /\ UNCHANGED nnvars

\* the state after neat_epoch returned r
EpochResult(r) ==
    /\ species' = r.species
    /\ genomes' = r.genomes
    /\ heap' = r.heap
    /\ op' = [name |-> "epoch", found |-> r.found, worst |-> r.worst,
              kind |-> r.kind, sel |-> r.sel, genitor |-> r.genitor,
              selection_random |-> r.selection_random]
    /\ aged' = aged \cup Old(r.genomes, r.heap, conf)
    /\ UNCHANGED <<p, conf, innovation>>
    /\ UNCHANGED nnvars

\* the model stops allocating genomes and species at its bounds
WithinBounds(r) == Len(r.species) <= MaxSpecies /\ Len(r.heap) <= MaxGenomes

\* no genome is old enough: neat_epoch returns at once
EpochNoWorst ==
    /\ p = "live"
    /\ \E r \in {NeatEpoch(species, genomes, heap, conf, FInt(0), FInt(0), NULL, {})} :
           r.kind = "noop" /\ EpochResult(r)

\* the roulette runs off the end of the species list
EpochFallthrough ==
    /\ p = "live"
    /\ \E selection_random \in RandVals :
       \E s \in {NeatEpochSelection(species, genomes, heap, conf, selection_random)} :
       \E r \in {NeatEpochFrom(s, genomes, heap, conf,
                                selection_random, FInt(0), NULL, {})} :
           r.kind = "fallthrough" /\ EpochResult(r)

\* the crossover branch: nothing is copied, the worst genome is speciated
EpochCrossover ==
    /\ p = "live"
    /\ \E selection_random \in RandVals :
       \E s \in {NeatEpochSelection(species, genomes, heap, conf, selection_random)} :
       \E random \in RandVals :
       /\ s.sel # 0
       /\ FGt(conf.species_crossover_probability, random)
       /\ \E ub \in SUBSET DeadRepresentants(species, heap) :
          \E r \in {NeatEpochFrom(s, genomes, heap, conf,
                                   selection_random, random, NULL, ub)} :
              r.kind = "crossover" /\ WithinBounds(r) /\ EpochResult(r)

\* the genomes neat_species_select_genitor may hand out in an epoch: the
\* members of the species the roulette selects
Genitors(s) == IF s.sel = 0 THEN {} ELSE NeatSpeciesSelectGenitor(s.species[s.sel])

\* the worst genome's slot gets a copy of a genitor of the selected species
EpochReplace ==
    /\ p = "live"
    /\ Len(heap) < MaxGenomes
    /\ \E selection_random \in RandVals :
       \E s \in {NeatEpochSelection(species, genomes, heap, conf, selection_random)} :
       \E random \in RandVals :
       /\ ~FGt(conf.species_crossover_probability, random)
       /\ \E g \in Genitors(s) :
          \E ub \in SUBSET DeadAtSpeciation(species, genomes, heap, conf) :
          \E r \in {NeatEpochFrom(s, genomes, heap, conf,
                                   selection_random, random, g, ub)} :
              /\ r.kind \in {"replace", "abort"}
              /\ WithinBounds(r)
              /\ EpochResult(r)

\* ------------------------------------------------------------------------
\* The scenario of spec.md section 8: population size 4, minimum-ticks-alive
\* 0, a large compatibility threshold; fitness 0,1,2,3 on slots 0-3, every
\* genome aged once, then one epoch
\* ------------------------------------------------------------------------
ScenarioConfig(crossover_probability) ==
    [population_size |-> 4, genome_minimum_ticks_alive |-> 0,
     genome_compatibility_treshold |-> 100,
     species_crossover_probability |-> crossover_probability]

ScenarioCreate == \E cp \in {FInt(0), FInt(1)} : NeatCreate(ScenarioConfig(cp))

ScenarioSetFitness == \E i \in 1..Len(genomes) : NeatSetFitness(i, FInt(i - 1))

ScenarioIncreaseTimeAlive == \E i \in 1..Len(genomes) : NeatIncreaseTimeAlive(i)

\* the population is as created but for the fitness and age the scenario sets
ScenarioReady ==
    /\ p = "live"
    /\ genomes = [i \in 1..conf.population_size |-> i]
    /\ species = NeatCreateNewSpecies(<<>>, genomes[1])
    /\ \A i \in DOMAIN genomes :
         heap[genomes[i]].fitness = FInt(i - 1) /\ heap[genomes[i]].time_alive = 1

\* the one epoch call of the scenario, with every outcome neat_epoch has
ScenarioEpoch ==
    /\ ScenarioReady
    /\ \E selection_random \in RandVals, random \in RandVals :
       \E ub \in SUBSET DeadAtSpeciation(species, genomes, heap, conf) :
       \E g \in 0..Len(heap) :
       \E r \in {NeatEpoch(species, genomes, heap, conf,
                            selection_random, random, g, ub)} :
             /\ IF r.kind \in {"replace", "abort"}
                THEN g \in NeatSpeciesSelectGenitor(
                              Detach(species, genomes[r.worst])[r.sel])
                ELSE g = NULL
             /\ EpochResult(r)

ScenarioNext ==
    \/ ScenarioCreate
    \/ ScenarioSetFitness
    \/ ScenarioIncreaseTimeAlive
    \/ ScenarioEpoch

SpecScenario == Init /\ [][ScenarioNext]_vars

Next ==
    \/ \E config \in Configs : NeatCreate(config)
    \/ \E i \in 1..MaxPop : NeatRun(i)
    \/ \E i \in 1..MaxPop, f \in FitnessVals : NeatSetFitness(i, f)
    \/ \E i \in 1..MaxPop : NeatIncreaseTimeAlive(i)
    \/ EpochNoWorst
    \/ EpochFallthrough
    \/ EpochCrossover
    \/ EpochReplace
    \/ NeatDestroy

Spec == Init /\ [][Next]_vars


\* ------------------------------------------------------------------------
\* The operations of the network
\* ------------------------------------------------------------------------
BiasVals == {FInt(-1), FInt(0)}

\* every selector as the hidden one and as the output one
ActivationPairs ==
    {<<a, "NN_ACTIVATION_SIGMOID">> : a \in Activations}
        \cup {<<"NN_ACTIVATION_SIGMOID", a>> : a \in Activations}

\* the inputs of a run are any floats: a finite value and INFINITY in every
\* place, and zero next to a finite value
FInf == FInfinity(FALSE)

InputVals == {FInt(1), FInf}

\* the input arrays of the runs: each value in every place, and one array of
\* unequal values
InputVectors(n) ==
    {[i \in 1..n |-> v] : v \in InputVals}
        \cup {[i \in 1..n |-> IF i = 1 THEN FInt(1) ELSE FInt(0)]}

NNCreate(input_count, hidden_count, output_count, hidden_layer_count) ==
    /\ net.state = "null"
    /\ input_count > 0
    /\ output_count > 0
    /\ (hidden_count > 0) = (hidden_layer_count > 0)
    /\ net' = nn_ffnet_create(input_count, hidden_count, output_count,
                              hidden_layer_count)
    /\ nnop' = [NoNNOp EXCEPT !.name = "create"]
    /\ ptr' = nn_ffnet_set_pointers(ptr, "net")
    /\ UNCHANGED <<copy, ncalls>>
    /\ UNCHANGED popvars

\* the values rand() returns during one call of nn_ffnet_randomize on a
\* network of n weights: a run of at most MaxRun values, repeated
RandRuns == UNION {[1..l -> {0, RAND_MAX}] : l \in 1..MaxRun}

Draws(n) == {[i \in 1..n |-> run[((i - 1) % Len(run)) + 1]] : run \in RandRuns}

NNRandomize(draws) ==
    /\ net.state = "live"
    /\ net' = nn_ffnet_randomize(net, draws)
    /\ nnop' = [NoNNOp EXCEPT !.name = "call"]
    /\ UNCHANGED <<copy, ptr, ncalls>>
    /\ UNCHANGED popvars

NNSetActivations(hidden, output) ==
    /\ net.state = "live"
    /\ net' = [net EXCEPT !.hidden_activation = hidden,
                          !.output_activation = output]
    /\ nnop' = [NoNNOp EXCEPT !.name = "call"]
    /\ UNCHANGED <<copy, ptr, ncalls>>
    /\ UNCHANGED popvars

NNSetBias(bias) ==
    /\ net.state = "live"
    /\ net' = [net EXCEPT !.bias = bias]
    /\ nnop' = [NoNNOp EXCEPT !.name = "call"]
    /\ UNCHANGED <<copy, ptr, ncalls>>
    /\ UNCHANGED popvars

\* a run that returns leaves the network live; a failed assertion or exit(-1)
\* ends the process
NNRun(inputs) ==
    /\ net.state = "live"
    /\ \E r \in {nn_ffnet_run(net, inputs)} :
           /\ net' = [net EXCEPT !.items = r.items,
                                 !.state = IF r.status = "ok" THEN "live" ELSE r.status]
           /\ nnop' = [name |-> "run", on |-> "net", status |-> r.status,
                       weight |-> r.weight, output |-> r.output, ret |-> r.ret,
                       reads |-> r.reads,
                       outputs |-> IF r.status = "ok"
                                   THEN [i \in 1..net.noutputs |->
                                            ItemAt(r.items, net.nweights + r.ret + i - 1)]
                                   ELSE <<>>]
    /\ UNCHANGED <<copy, ptr, ncalls>>
    /\ UNCHANGED popvars

\* nothing can be called on a network after nn_ffnet_destroy
NNDestroy ==
    /\ net.state = "live"
    /\ net' = nn_ffnet_destroy(net)
    /\ nnop' = [NoNNOp EXCEPT !.name = "destroy"]
    /\ UNCHANGED <<copy, ptr, ncalls>>
    /\ UNCHANGED popvars

NextNN ==
    \/ \E i \in 1..MaxInputs, h \in 0..MaxHiddens, o \in 1..MaxOutputs,
          l \in 0..MaxHiddenLayers : NNCreate(i, h, o, l)
    \/ \E draws \in Draws(net.nweights) : NNRandomize(draws)
    \/ \E pair \in ActivationPairs : NNSetActivations(pair[1], pair[2])
    \/ \E b \in BiasVals : NNSetBias(b)
    \/ \E inputs \in InputVectors(net.ninputs) : NNRun(inputs)
    \/ NNDestroy

SpecNN == Init /\ [][NextNN]_vars

\* ------------------------------------------------------------------------
\* Two networks: the one created and the copy made of it
\* ------------------------------------------------------------------------
Nets == [net |-> net, copy |-> copy]

\* the struct as the code sees it: its own fields, and the weights and
\* scratch slots that its weight and output pointers lead to
NNView(nets, pt, who) == [nets[who] EXCEPT !.items = nets[pt[who]].items]

\* the two structs after a call on `who` that left it as n2: the fields are
\* those of the struct, the items those of the block its pointers lead to
NNStore(nets, pt, who, n2) ==
    [k \in {"net", "copy"} |->
        LET base == IF k = who THEN [n2 EXCEPT !.items = nets[k].items]
                    ELSE nets[k]
        IN  IF pt[who] = k THEN [base EXCEPT !.items = n2.items] ELSE base]

\* the outputs a run of `who` on these inputs returns, <<>> if it does not return
NNOutputs(n, r) ==
    IF r.status = "ok"
    THEN [i \in 1..n.noutputs |-> ItemAt(r.items, n.nweights + r.ret + i - 1)]
    ELSE <<>>

NNCopy ==
    /\ net.state = "live"
    /\ copy.state = "null"
    /\ \E r \in {nn_ffnet_copy(net, ptr)} :
           /\ copy' = r.copy
           /\ ptr' = r.ptr
    /\ nnop' = [NoNNOp EXCEPT !.name = "copy"]
    /\ UNCHANGED <<net, ncalls>>
    /\ UNCHANGED popvars

\* the process runs and `who` is a network a call can be made on
Callable(who) ==
    /\ net.state \in {"live", "destroyed"}
    /\ copy.state \in {"null", "live", "destroyed"}
    /\ Nets[who].state = "live"
    /\ ncalls < MaxCalls

\* the state after a call on `who` that left it as n2
NNCallResult(who, n2, o) ==
    /\ \E st \in {NNStore(Nets, ptr, who, n2)} :
           /\ net' = st.net
           /\ copy' = st.copy
    /\ nnop' = [o EXCEPT !.on = who]
    /\ ncalls' = ncalls + 1
    /\ UNCHANGED ptr
    /\ UNCHANGED popvars

NNRandomizeOn(who, draws) ==
    /\ Callable(who)
    /\ NNCallResult(who, nn_ffnet_randomize(NNView(Nets, ptr, who), draws),
                    [NoNNOp EXCEPT !.name = "call"])

NNDestroyOn(who) ==
    /\ Callable(who)
    /\ NNCallResult(who, nn_ffnet_destroy(NNView(Nets, ptr, who)),
                    [NoNNOp EXCEPT !.name = "destroy"])

NNSetActivationsOn(who, hidden, output) ==
    /\ Callable(who)
    /\ NNCallResult(who, [NNView(Nets, ptr, who) EXCEPT
                              !.hidden_activation = hidden,
                              !.output_activation = output],
                    [NoNNOp EXCEPT !.name = "call"])

NNSetBiasOn(who, bias) ==
    /\ Callable(who)
    /\ NNCallResult(who, [NNView(Nets, ptr, who) EXCEPT !.bias = bias],
                    [NoNNOp EXCEPT !.name = "call"])

NNRunOn(who, inputs) ==
    /\ Callable(who)
    /\ \E n \in {NNView(Nets, ptr, who)} :
       \E r \in {nn_ffnet_run(n, inputs)} :
           NNCallResult(who,
               [n EXCEPT !.items = r.items,
                         !.state = IF r.status = "ok" THEN "live" ELSE r.status],
               [name |-> "run", on |-> who, status |-> r.status, weight |-> r.weight,
                output |-> r.output, ret |-> r.ret, outputs |-> NNOutputs(n, r),
                reads |-> r.reads])

NextNNCopy ==
    \/ \E i \in 1..MaxInputs, h \in 0..MaxHiddens, o \in 1..MaxOutputs,
          l \in 0..MaxHiddenLayers : NNCreate(i, h, o, l)
    \/ NNCopy
    \/ \E who \in {"net", "copy"} :
       \E draws \in Draws(Nets[who].nweights) : NNRandomizeOn(who, draws)
    \/ \E who \in {"net", "copy"}, pair \in ActivationPairs :
           NNSetActivationsOn(who, pair[1], pair[2])
    \/ \E who \in {"net", "copy"}, b \in BiasVals : NNSetBiasOn(who, b)
    \/ \E who \in {"net", "copy"} :
       \E inputs \in InputVectors(Nets[who].ninputs) : NNRunOn(who, inputs)
    \/ \E who \in {"net", "copy"} : NNDestroyOn(who)

SpecNNCopy == Init /\ [][NextNNCopy]_vars

\* ------------------------------------------------------------------------
\* Properties
\* ------------------------------------------------------------------------
Slots == DOMAIN genomes

\* the species that hold genome g
SpeciesOf(g) == {i \in DOMAIN species : g \in Members(species[i])}

EpochReturned == p = "live" /\ op.name = "epoch"

\* C1 (as stated): at every stable point every slot's genome is a member of
\* exactly one species: of at most one, and of none only inside an epoch call
C1_ExactlyOneSpecies ==
    p = "live" => \A i \in Slots : Cardinality(SpeciesOf(genomes[i])) = 1

\* C1 (amended): at every stable point every slot's genome is a member of at
\* most one species, and is held at most once by it; it may be a member of none
C1_AtMostOneSpecies ==
    p = "live" =>
        \A i \in Slots :
            /\ Cardinality(SpeciesOf(genomes[i])) <= 1
            /\ \A k \in SpeciesOf(genomes[i]) :
                 Cardinality({j \in DOMAIN species[k].genomes :
                                 species[k].genomes[j] = genomes[i]}) = 1

\* an epoch has moved the worst genome out of its species into another one
C1_Witness ==
    /\ EpochReturned
    /\ op.kind \in {"replace", "crossover"}
    /\ Len(species) >= 2
    /\ Cardinality(SpeciesOf(genomes[op.worst])) = 1
    /\ \E i \in Slots : i # op.worst /\ SpeciesOf(genomes[i]) # SpeciesOf(genomes[op.worst])
                                     /\ SpeciesOf(genomes[i]) # {}

\* C2: right after create with population size N there are N genomes, all
\* clones of the base genome, and one species, which holds all N of them
C2_CreateOneSpeciesOfAll ==
    (p = "live" /\ op.name = "create") =>
        /\ Len(genomes) = conf.population_size
        /\ \A i \in Slots : heap[genomes[i]] = heap[genomes[1]]
        /\ \A i, j \in Slots : i # j => genomes[i] # genomes[j]
        /\ Len(species) = 1
        /\ Members(species[1]) = {genomes[i] : i \in Slots}

\* the slots whose genome is old enough to be picked as worst
Eligible == Old(genomes, heap, conf)

Fitness(i) == heap[genomes[i]].fitness

\* a <= b; every comparison with NaN is false
FLe(a, b) == ~IsNaN(a) /\ ~IsNaN(b) /\ ~FGt(a, b)

\* a < b and a == b as C compares floats
FLt(a, b) == FGt(b, a)

FSame(a, b) == FLe(a, b) /\ FLe(b, a)

\* a step that is a call of neat_epoch
EpochStep == p = "live" /\ op'.name = "epoch"

\* C3: when no genome is older than the minimum, epoch changes no slot, no
\* genome's fitness or age, no species' members and not the number of species
C3_NoEligibleEpochIsNoOp ==
    [][(EpochStep /\ Eligible = {}) =>
          /\ genomes' = genomes
          /\ heap' = heap
          /\ species' = species
          /\ ~op'.found]_vars

\* epoch has returned from a population with unequal fitness values in which
\* no genome was old enough
C3_Witness ==
    /\ EpochReturned
    /\ op.kind = "noop"
    /\ Eligible = {}
    /\ \E i, j \in Slots : FLt(Fitness(i), Fitness(j))
    /\ \E i \in Slots : heap[genomes[i]].time_alive = conf.genome_minimum_ticks_alive
    /\ \E i \in Slots : SpeciesOf(genomes[i]) # {}

\* the eligible slots whose fitness is below FLT_MAX, the value the scan of
\* neat_find_worst_fitness starts from
BelowFltMax == {j \in Eligible : FLt(Fitness(j), FLT_MAX)}

\* C4 (as stated): with at least one eligible genome, the slot epoch picks is
\* the lowest slot among the eligible genomes of minimum fitness; an
\* ineligible genome is never picked
C4_WorstSelection ==
    [][(EpochStep /\ Eligible # {}) =>
          /\ op'.found
          /\ op'.worst \in Eligible
          /\ \A j \in Eligible : FLe(Fitness(op'.worst), Fitness(j))
          /\ \A j \in Eligible :
                FSame(Fitness(j), Fitness(op'.worst)) => op'.worst <= j]_vars

\* C4 (amended): with at least one eligible genome whose fitness is below
\* FLT_MAX, the slot epoch picks is the lowest slot among the eligible genomes
\* whose fitness is the minimum of the eligible genomes' fitness values that
\* are numbers; when every eligible genome's fitness is FLT_MAX, infinite or
\* not a number epoch picks no slot and changes nothing; an ineligible genome
\* is never picked
C4_WorstSelectionBelowFltMax ==
    [][(EpochStep /\ Eligible # {}) =>
          IF BelowFltMax = {}
          THEN /\ ~op'.found
               /\ genomes' = genomes /\ heap' = heap /\ species' = species
          ELSE /\ op'.found
               /\ op'.worst \in Eligible
               /\ \A j \in Eligible :
                     ~IsNaN(Fitness(j)) => FLe(Fitness(op'.worst), Fitness(j))
               /\ \A j \in Eligible :
                     FSame(Fitness(j), Fitness(op'.worst)) => op'.worst <= j]_vars

\* epoch picked a slot that comes after an eligible genome whose fitness is
\* not below FLT_MAX, although an ineligible genome has a lower fitness
C4_Witness ==
    /\ EpochReturned
    /\ op.kind = "crossover"
    /\ op.worst \in BelowFltMax
    /\ \E j \in Eligible \ BelowFltMax : j < op.worst
    /\ \E j \in Slots \ Eligible : FLt(Fitness(j), Fitness(op.worst))

\* C6 (as stated): while exactly one slot has ever been old enough, every
\* epoch call replaces the genome of that slot and of no other
C6_EveryEpochReplacesThatSlot ==
    [][(EpochStep /\ Cardinality(aged) = 1) =>
          \A i \in Slots : (genomes'[i] # genomes[i]) <=> (i \in aged)]_vars

\* C6 (amended): while exactly one slot has ever been old enough, no epoch
\* call changes another slot, and an epoch call that replaces a genome
\* replaces the one of that slot; an epoch call may replace nothing
C6_OnlyThatSlotIsReplaced ==
    [][(EpochStep /\ Cardinality(aged) = 1) =>
          /\ \A i \in Slots \ aged :
                genomes'[i] = genomes[i] /\ heap'[genomes'[i]] = heap[genomes[i]]
          /\ op'.kind = "replace" =>
                op'.worst \in aged /\ genomes'[op'.worst] # genomes[op'.worst]]_vars

\* the one slot that ever was old enough has been replaced twice, the other
\* slot still holds its first genome
C6_Witness ==
    /\ EpochReturned
    /\ op.kind = "replace"
    /\ aged = {op.worst}
    /\ Len(genomes) >= 2
    /\ genomes[op.worst] > Len(genomes) + 1
    /\ \A i \in Slots \ aged : genomes[i] = i

\* C7: an epoch call changes no slot but the one picked as worst: every other
\* slot holds the same genome with the same fitness and age
C7_AtMostOneReplaced ==
    [][EpochStep =>
          \A i \in Slots :
              (~op'.found \/ i # op'.worst) =>
                  genomes'[i] = genomes[i] /\ heap'[genomes'[i]] = heap[genomes[i]]]_vars

\* an epoch has replaced one slot of a population of several
C7_Witness ==
    /\ EpochReturned
    /\ op.kind = "replace"
    /\ Len(genomes) >= 2
    /\ genomes[op.worst] > Len(genomes)
    /\ heap[genomes[op.worst]].alive

\* C8: the number of slots is the configured population size in every state
C8_SizeIsConstant ==
    p = "live" => Len(genomes) = conf.population_size

\* a slot has been replaced and the population still has its size
C8_Witness ==
    /\ EpochReturned
    /\ op.kind = "replace"
    /\ conf.population_size >= 2
    /\ Len(genomes) = conf.population_size

\* the species list after speciating genome g into sp when every
\* representant, destroyed or not, is compared by what it held
\* (the first matching species gets g, else one new species of g alone)
FirstMatch(sp, h, g, treshold) ==
    LET m == {i \in DOMAIN sp :
                 NeatGenomeIsCompatible(h[g], h[sp[i].representant], treshold)}
    IN  IF m = {} THEN 0 ELSE CHOOSE i \in m : \A j \in m : i <= j

\* C9: re-speciation adds the worst slot's genome to the first species, in
\* creation order, whose representative is compatible with it, or else
\* appends one new species holding only this genome; it removes and reorders
\* no species
C9_FirstCompatibleSpecies ==
    [][(EpochStep /\ op'.kind \in {"replace", "crossover"}) =>
          LET g == genomes'[op'.worst]
              sp == Detach(species, genomes[op'.worst])
              f == FirstMatch(sp, heap', g, conf.genome_compatibility_treshold)
          IN  IF f # 0
              THEN /\ Len(species') = Len(sp)
                   /\ \A i \in DOMAIN sp :
                        species'[i].genomes =
                            IF i = f THEN Append(sp[i].genomes, g) ELSE sp[i].genomes
              ELSE /\ Len(species') = Len(sp) + 1
                   /\ species'[Len(species')].genomes = <<g>>
                   /\ \A i \in DOMAIN sp : species'[i].genomes = sp[i].genomes]_vars

\* C5: in the scenario the epoch call picks slot 0 as worst, detaches its
\* genome from its species, puts a copy of a genitor of the selected species
\* in slot 0 and leaves the population at size 4
C5_ScenarioReplacesSlot0 ==
    EpochReturned =>
        /\ op.found
        /\ op.worst = 1
        /\ SpeciesOf(1) = {}
        /\ op.kind = "replace"
        /\ genomes[1] # 1
        /\ heap[genomes[1]].alive
        /\ op.genitor \in {genomes[i] : i \in Slots}
        /\ Len(genomes) = 4

\* the weight count of section 4.4 for a topology
WeightFormula(I, H, O, L) ==
    IF L > 0 THEN (I + 1) * H + (L - 1) * (H + 1) * H + (H + 1) * O
    ELSE (I + 1) * O

\* the weights a forward pass reads, layer by layer: every neuron reads one
\* bias weight and one weight per neuron of the layer before it
RECURSIVE LayerFanIns(_, _)
LayerFanIns(n, l) ==
    IF l > n.nhidden_layers + 1 THEN 0
    ELSE LET width == IF l = n.nhidden_layers + 1 THEN n.noutputs ELSE n.nhiddens
             before == IF l = 1 THEN n.ninputs ELSE n.nhiddens
         IN  width * (before + 1) + LayerFanIns(n, l + 1)

\* C10: for every valid topology the weight count and the neuron count are
\* the ones of the formulas, and a run that reaches its end has consumed
\* exactly that many weights and filled exactly that many scratch slots, so
\* neither assertion at the end of the evaluator fails
C10_CountsMatchEvaluation ==
    net.state # "null" =>
        /\ net.nweights = WeightFormula(net.ninputs, net.nhiddens,
                                        net.noutputs, net.nhidden_layers)
        /\ net.nweights = LayerFanIns(net, 1)
        /\ net.nneurons = net.ninputs + net.nhiddens * net.nhidden_layers
                              + net.noutputs
        /\ Len(net.items) = net.nweights + net.nneurons
        /\ nnop.name = "run" =>
              /\ nnop.status # "abort"
              /\ nnop.status = "ok" =>
                    /\ nnop.weight = net.nweights
                    /\ nnop.output = net.nneurons
                    /\ nnop.ret = net.nneurons - net.noutputs

\* a run of a network with two hidden layers has returned
C10_Witness ==
    /\ nnop.name = "run"
    /\ nnop.status = "ok"
    /\ net.nhidden_layers = 2
    /\ net.nhiddens = 2
    /\ net.ninputs = 2
    /\ nnop.weight = net.nweights
    /\ nnop.output = net.nneurons

\* the outputs a network returns for every input
OutputsOf(n) ==
    [inputs \in InputVectors(n.ninputs) |->
        The({NNOutputs(n, r) : r \in {nn_ffnet_run(n, inputs)}})]

\* the step is a call on the network `who`: a randomize, set activations,
\* set bias, run or destroy
CalledOn(who) == ncalls' = ncalls + 1 /\ nnop'.on = who

\* C11: right after copy the copy has the topology, bias, selectors, weights
\* and scratch contents of its source and returns the same outputs for the
\* same inputs; and every later call on one of the two networks (randomize,
\* set bias, set activations, run, destroy) leaves the other as it was: its
\* fields, and the weights and scratch slots it evaluates from, which
\* determine the outputs of its later runs
C11_CopyIsIndependent ==
    /\ [](nnop.name = "copy" =>
            /\ copy = net
            /\ ptr.copy = "copy"
            /\ \E a \in {NNView(Nets, ptr, "copy")}, b \in {NNView(Nets, ptr, "net")} :
                   a = b /\ OutputsOf(a) = OutputsOf(b))
    /\ [][\A who \in {"net", "copy"} :
            (copy.state # "null" /\ CalledOn(who)) =>
                LET other == IF who = "net" THEN "copy" ELSE "net"
                IN  /\ Nets[other]' = Nets[other]
                    /\ NNView(Nets, ptr, other)' = NNView(Nets, ptr, other)]_vars

\* the copy was randomized and run and its source still has the zero
\* weights it was created with
C11_Witness ==
    /\ copy.state = "live"
    /\ net.state = "live"
    /\ nnop.name = "run"
    /\ nnop.status = "ok"
    /\ \E k \in 1..copy.nweights : copy.items[k] # net.items[k]
    /\ \E k \in (copy.nweights + 1)..Len(copy.items) : copy.items[k] # net.items[k]
    /\ \A k \in 1..net.nweights : net.items[k] = FInt(0)

\* C12: no genome and no species is ever destroyed twice, and once the
\* population is destroyed every genome ever created (the base, its initial
\* clones, every replacement copy) and every species ever created has been
\* destroyed exactly once
C12_DestroyedExactlyOnce ==
    /\ \A g \in DOMAIN heap :
          /\ heap[g].destroyed <= 1
          /\ heap[g].alive = (heap[g].destroyed = 0)
    /\ \A i \in DOMAIN species : species[i].destroyed <= 1
    /\ p = "live" => \A i \in DOMAIN species : species[i].destroyed = 0
    /\ p = "destroyed" =>
          /\ \A g \in DOMAIN heap : heap[g].destroyed = 1
          /\ \A i \in DOMAIN species : species[i].destroyed = 1

\* the population was destroyed after an epoch had replaced a genome and a
\* second species had been created
C12_Witness ==
    /\ p = "destroyed"
    /\ Len(heap) > conf.population_size
    /\ Len(species) >= 2
    /\ \A g \in DOMAIN heap : heap[g].destroyed = 1

\* the selectors nn_activate knows
Recognized == {"NN_ACTIVATION_SIGMOID", "NN_ACTIVATION_FAST_SIGMOID",
               "NN_ACTIVATION_RELU"}

\* the selectors of the layers the network has: the output one, and the
\* hidden one when there is a hidden layer
LayerSelectors(n) ==
    {n.output_activation}
        \cup (IF n.nhidden_layers > 0 THEN {n.hidden_activation} ELSE {})

\* C13: a run of a network one of whose layers has an unrecognized activation
\* selector ends the process and returns no outputs; a run of a network whose
\* layers all have recognized selectors does not end it that way
C13_UnknownSelectorIsFatal ==
    nnop.name = "run" =>
        /\ (LayerSelectors(net) \ Recognized # {}) =>
               /\ nnop.status = "exit"
               /\ nnop.outputs = <<>>
               /\ net.state = "exit"
        /\ (LayerSelectors(net) \subseteq Recognized) => nnop.status # "exit"

\* a network with hidden layers and an unrecognized hidden selector was run
C13_Witness ==
    /\ nnop.name = "run"
    /\ nnop.status = "exit"
    /\ net.nhidden_layers > 0
    /\ net.hidden_activation \notin Recognized
    /\ net.output_activation \in Recognized

\* the network has only zero weights and a zero bias
ZeroNet(n) ==
    /\ n.bias = FInt(0)
    /\ \A k \in 1..n.nweights : n.items[k] = FInt(0)

\* the inputs of the last run, as it left them at the start of the scratch slots
InputEcho(n) == [k \in 1..n.ninputs |-> n.items[n.nweights + k]]

\* the value section 8 gives for each activation function at zero input
ValueAtZero(activation) ==
    IF activation = "NN_ACTIVATION_SIGMOID" THEN Flt(1, 2) ELSE FInt(0)

\* every output of the last run is the output activation's value at zero
OutputsAtZero ==
    /\ Len(nnop.outputs) = net.noutputs
    /\ \A k \in 1..net.noutputs :
          nnop.outputs[k] = ValueAtZero(net.output_activation)

\* C14 (as stated): with all weights and the bias zero, every output of a
\* run equals the output activation's value at zero (0.5 for sigmoid, 0 for
\* ReLU and fast sigmoid), for any inputs
C14_ZeroNetAnyInputs ==
    (nnop.name = "run" /\ nnop.status = "ok" /\ ZeroNet(net)) => OutputsAtZero

\* C14 (amended): with all weights and the bias zero, every output of a run
\* on finite inputs equals the output activation's value at zero
C14_ZeroNetFiniteInputs ==
    (/\ nnop.name = "run"
     /\ nnop.status = "ok"
     /\ ZeroNet(net)
     /\ \A k \in 1..net.ninputs : IsFinite(InputEcho(net)[k])) => OutputsAtZero

\* a zero network with two hidden layers was run on a non-zero finite input
C14_Witness ==
    /\ nnop.name = "run"
    /\ nnop.status = "ok"
    /\ ZeroNet(net)
    /\ net.nhidden_layers = 2
    /\ \A k \in 1..net.ninputs : InputEcho(net)[k] = FInt(1)
    /\ OutputsAtZero


\* the share of species i: its average fitness over the aggregate average
Share(sp, h, i) ==
    FDiv(NeatSpeciesGetAverageFitness(sp[i], h), NeatGetSpeciesFitnessAverage(sp, h))

\* the selection of section 4.1, step 4, from species i on with r left:
\* empty species are skipped, the first species with r <= share is selected,
\* else its share is subtracted from r; 0 when no species is selected
RECURSIVE SelectionAsStated(_, _, _, _)
SelectionAsStated(sp, h, r, i) ==
    IF i > Len(sp) THEN 0
    ELSE IF Len(sp[i].genomes) = 0 THEN SelectionAsStated(sp, h, r, i + 1)
    ELSE IF FLe(r, Share(sp, h, i)) THEN i
    ELSE SelectionAsStated(sp, h, FSub(r, Share(sp, h, i)), i + 1)

\* C15: the species an epoch selects is the first non-empty species, in
\* creation order, for which the current r is <= its share, r being the one
\* random value less the shares of the non-empty species passed over; an
\* empty species is never selected, and no species is selected when r
\* exceeds every share in turn
C15_SelectedIffWithinShare ==
    [][(EpochStep /\ op'.found) =>
          LET sp == Detach(species, genomes[op'.worst])
          IN  /\ op'.sel = SelectionAsStated(sp, heap, op'.selection_random, 1)
              /\ op'.sel # 0 => Len(sp[op'.sel].genomes) > 0]_vars

\* C16: when the roulette selects no species, epoch returns with the slots
\* and every genome as they were, creates no species, and leaves the worst
\* genome, detached, a member of no species
C16_NoSelectionReplacesNothing ==
    [][(EpochStep /\ op'.found /\ op'.sel = 0) =>
          /\ p' = "live"
          /\ genomes' = genomes
          /\ heap' = heap
          /\ Len(species') = Len(species)
          /\ species' = Detach(species, genomes[op'.worst])
          /\ \A i \in DOMAIN species' :
                genomes'[op'.worst] \notin Members(species'[i])]_vars

\* an epoch of a population of several genomes found a worst genome, selected
\* no species and returned
C16_Witness ==
    /\ EpochReturned
    /\ op.found
    /\ op.sel = 0
    /\ op.kind = "fallthrough"
    /\ conf.population_size >= 2
    /\ Len(species) >= 1
    /\ heap[genomes[op.worst]].alive
    /\ SpeciesOf(genomes[op.worst]) = {}

\* the layer of the m-th neuron evaluated: 1 .. nhidden_layers are the hidden
\* layers, nhidden_layers + 1 is the output layer
LayerOf(n, m) ==
    IF m > n.nhiddens * n.nhidden_layers THEN n.nhidden_layers + 1
    ELSE ((m - 1) \div n.nhiddens) + 1

\* the scratch slots of the layer before layer l: the input echo before the
\* first layer, else the hidden layer l - 1
SlotsBefore(n, l) ==
    IF l = 1 THEN 0..(n.ninputs - 1)
    ELSE (n.ninputs + (l - 2) * n.nhiddens)..(n.ninputs + (l - 1) * n.nhiddens - 1)

\* C17: in a run that returns, the m-th neuron stores to scratch slot
\* ninputs + m - 1 and reads exactly the slots of the layer before its own
\* (the input echo for the first layer, hidden or output); every slot it reads
\* lies inside the scratch buffer and before the slot it stores to, so it was
\* written earlier in the run; and the handle returned is the first of the
\* noutputs last slots
C17_ReadsPrecedingLayer ==
    (nnop.name = "run" /\ nnop.status = "ok") =>
        /\ Len(nnop.reads) = net.nhiddens * net.nhidden_layers + net.noutputs
        /\ \A m \in DOMAIN nnop.reads :
              /\ nnop.reads[m].slot = net.ninputs + m - 1
              /\ nnop.reads[m].from = SlotsBefore(net, LayerOf(net, m))
              /\ \A s \in nnop.reads[m].from :
                    /\ s >= 0
                    /\ s < net.nneurons
                    /\ s < nnop.reads[m].slot
        /\ nnop.ret = net.nneurons - net.noutputs
        /\ nnop.ret = nnop.reads[Len(nnop.reads) - net.noutputs + 1].slot

\* a network with two hidden layers, as many inputs as it can have and fewer
\* hidden neurons per layer was run
C17_Witness ==
    /\ nnop.name = "run"
    /\ nnop.status = "ok"
    /\ net.nhidden_layers = 2
    /\ net.ninputs = 2
    /\ net.nhiddens = 1
    /\ Len(nnop.reads) = 2 + net.noutputs
    /\ nnop.reads[2].from = {2}

\* C18: the representative of every species is a genome that has not been
\* destroyed
C18_RepresentantAlive ==
    p = "live" =>
        \A i \in DOMAIN species :
            /\ species[i].representant # NULL
            /\ heap[species[i].representant].alive

\* C19: the genitor an epoch copies from is a live genome other than the one
\* in the slot being replaced, before and after the slot's genome is
\* destroyed; the assertion of the replacement helper never fails
C19_GenitorIsNotTheReplaced ==
    [][(EpochStep /\ op'.kind \in {"replace", "abort"}) =>
          /\ op'.kind = "replace"
          /\ op'.genitor # NULL
          /\ op'.genitor # genomes[op'.worst]
          /\ heap[op'.genitor].alive
          /\ heap'[op'.genitor].alive
          /\ ~heap'[genomes[op'.worst]].alive]_vars

\* an epoch replaced the worst genome by a copy of a genitor that was in the
\* same species as the worst genome and is still in a slot
C19_Witness ==
    /\ EpochReturned
    /\ op.kind = "replace"
    /\ heap[op.genitor].alive
    /\ op.genitor \in {genomes[i] : i \in Slots}
    /\ op.genitor \in Members(species[op.sel])
    /\ genomes[op.worst] \in Members(species[op.sel])
    /\ Len(heap) > conf.population_size + 1

====
